---- MODULE Spec2Model ----
(***************************************************************************)
(* The vSphere worker delegate of pkg/controller/worker/machines.go: the   *)
(* expansion of the worker pools of one Worker resource into one machine   *)
(* deployment and one machine class per (pool, zone), and the delegate's   *)
(* cache of that result.                                                   *)
(*                                                                         *)
(* Go values are modelled as follows.                                      *)
(*   - a slice is a record [isNil, elems]; a pointer a record [isNil, v]   *)
(*   - a map[string]... is a function whose DOMAIN is the set of its keys  *)
(*   - a string built with fmt.Sprintf is a sequence of one-character      *)
(*     strings, so that the formatting is really computed                  *)
(*   - an error is a string, NoErr standing for the nil error              *)
(*   - a resource.Quantity holds an int64 n = sign * (hi * 2^30 + lo) with *)
(*     0 <= lo < 2^30 (TLC's integers are 32 bits wide, a disk size in     *)
(*     bytes is not)                                                       *)
(***************************************************************************)
EXTENDS Integers, Sequences, FiniteSets, TLC

VARIABLES
    w,          \* the workerDelegate: its inputs and its three cached fields
    secretMaps, \* the heap of the secret maps the cached machine classes point to
    applied,    \* what the seed chart applier was last handed
    last,       \* the last call: operation, whether it ran generateMachineConfig,
                \* the secret it was served, errors, returned deployments, steps run
    stats       \* calls made, runs of generateMachineConfig, fetches, first success

vars == <<w, secretMaps, applied, last, stats>>

\* ---------------------------------------------------------------- bounds

MaxCalls == 2
MaxPools == 2
MaxZones == 2
MaxReplicas == 3

\* ---------------------------------------------------------------- Go values

NoErr == "nil"

NilSlice == [isNil |-> TRUE, elems |-> <<>>]

EmptySlice == [isNil |-> FALSE, elems |-> <<>>]

\* append(s, x): the result is never nil
append(s, x) == [isNil |-> FALSE, elems |-> Append(s.elems, x)]

NilPtr == [isNil |-> TRUE]

Ptr(v) == [isNil |-> FALSE, v |-> v]

\* m[k] = v on a Go map
MapSet(m, k, v) == (k :> v) @@ m

\* Go's integer division and remainder truncate toward zero
GoDiv(a, b) == IF a >= 0 THEN a \div b ELSE -((-a) \div b)

GoMod(a, b) == a - b * GoDiv(a, b)

Digit(d) == CASE d = 0 -> "0" [] d = 1 -> "1" [] d = 2 -> "2" [] d = 3 -> "3"
              [] d = 4 -> "4" [] d = 5 -> "5" [] d = 6 -> "6" [] d = 7 -> "7"
              [] d = 8 -> "8" [] d = 9 -> "9"

RECURSIVE Itoa(_)
\* the %d verb of fmt.Sprintf, of a non-negative integer
Itoa(n) == IF n < 10 THEN <<Digit(n)>> ELSE Itoa(n \div 10) \o <<Digit(n % 10)>>

\* strconv.FormatBool
FormatBool(b) == IF b THEN "true" ELSE "false"

\* ---------------------------------------------------------------- quantities

MiB == 1024 * 1024

GiB == 1024 * 1024 * 1024

\* A quantity that holds the int64 sign * (hi * 2^30 + lo), or one that does
\* not fit an int64 without loss (a fraction such as 500m, or too large).
Quantity(sign, hi, lo) == [int64 |-> TRUE, sign |-> sign, hi |-> hi, lo |-> lo]

NoInt64 == [int64 |-> FALSE, sign |-> 1, hi |-> 0, lo |-> 0]

\* Quantity.AsInt64: (n, ok), n = 0 when not ok
AsInt64(q) == IF q.int64 THEN [ok |-> TRUE, n |-> q] ELSE [ok |-> FALSE, n |-> Quantity(1, 0, 0)]

\* int(n) of an int64 small enough for TLC's integers (CPU counts)
IntOf(n) == n.sign * (n.hi * GiB + n.lo)

\* int(n) / (1024 * 1024)
DivMiB(n) == n.sign * (n.hi * 1024 + n.lo \div MiB)

\* int(n) / (1024 * 1024 * 1024)
DivGiB(n) == n.sign * n.hi

\* ---------------------------------------------------------------- collaborators

\* vsphere.Host, Username, Password, InsecureSSL: the keys under which the
\* credentials go into the secret of a machine class
Host == "host"

Username == "username"

Password == "password"

InsecureSSL == "insecureSSL"

RECURSIVE FindRegionFrom(_, _, _)
FindRegionFrom(name, regions, i) ==
    IF i > Len(regions) THEN NilPtr
    ELSE IF regions[i].Name = name THEN Ptr(regions[i])
    ELSE FindRegionFrom(name, regions, i + 1)

\* helper.FindRegion: the first region of the cloud profile config with the name
FindRegion(name, cloudProfileConfig) == FindRegionFrom(name, cloudProfileConfig.Regions, 1)

\* helper.GetInfrastructureStatus: decodes the raw provider status of the worker
GetInfrastructureStatus(namespace, raw) ==
    IF raw.decodable THEN [err |-> NoErr, status |-> raw.status]
    ELSE [err |-> "infrastructure status: decode failed", status |-> raw.status]

HexOf(s) == CASE s = "std-02" -> "a" [] s = "std-04" -> "b" [] s = "std-08" -> "c"
              [] s = "coreos" -> "1" [] s = "ubuntu" -> "2"
              [] s = "2135.6.0" -> "e" [] s = "18.4" -> "f"
              [] OTHER -> "0"

\* worker.WorkerPoolHash: a short string of fixed length, a function of the
\* pool's machine type and machine image; an error for a pool it cannot hash
WorkerPoolHash(pool, cluster) ==
    IF pool.Unhashable THEN [err |-> "worker pool hash failed", hash |-> <<>>]
    ELSE [err |-> NoErr,
          hash |-> <<HexOf(pool.MachineType), HexOf(pool.MachineImage.Name),
                     HexOf(pool.MachineImage.Version)>>]

\* workerDelegate.findMachineImage: path and guest id of the image (name, version)
findMachineImage(d, name, version) ==
    IF <<name, version>> \in DOMAIN d.images
    THEN [err |-> NoErr, path |-> d.images[<<name, version>>].Path,
          guestID |-> d.images[<<name, version>>].GuestID]
    ELSE [err |-> "machine image not found", path |-> "", guestID |-> ""]

\* appendMachineImage: appends unless an image of that name and version is there
appendMachineImage(images, image) ==
    IF \E i \in 1..Len(images.elems) :
           /\ images.elems[i].Name = image.Name
           /\ images.elems[i].Version = image.Version
    THEN images
    ELSE append(images, image)

\* worker.DistributeOverZones: the first (size mod zoneSize) zones get one more
DistributeOverZones(zoneIndex, size, zoneSize) ==
    GoDiv(size, zoneSize) + (IF zoneIndex < GoMod(size, zoneSize) THEN 1 ELSE 0)

RECURSIVE Atoi(_)
\* strconv.Atoi of a sequence of digits
Atoi(s) ==
    IF s = <<>> THEN 0
    ELSE 10 * Atoi(SubSeq(s, 1, Len(s) - 1))
         + (CHOOSE d \in 0..9 : Digit(d) = s[Len(s)])

FromInt(n) == [Type |-> "Int", IntVal |-> n, StrVal |-> <<>>]

FromString(s) == [Type |-> "String", IntVal |-> 0, StrVal |-> s]

\* a percentage of total, rounded up
PercentOf(percent, total) == (percent * total + 99) \div 100

\* worker.DistributePositiveIntOrPercent: a percentage is resolved against
\* total, rounding up, and the resolved integer distributed like an integer
DistributePositiveIntOrPercent(zoneIndex, intOrPercent, zoneSize, total) ==
    IF intOrPercent.Type = "String"
    THEN FromInt(DistributeOverZones(zoneIndex,
             PercentOf(Atoi(SubSeq(intOrPercent.StrVal, 1, Len(intOrPercent.StrVal) - 1)), total),
             zoneSize))
    ELSE FromInt(DistributeOverZones(zoneIndex, intOrPercent.IntVal, zoneSize))

\* ---------------------------------------------------------------- machines.go

\* generateMachineClassSecretData: the secret of the worker's secret reference
\* is fetched, the credentials are extracted from it, the region is looked up
generateMachineClassSecretData(d, fetch) ==
    IF fetch.secret.isNil
    THEN [err |-> "secret not found", data |-> <<>>]
    ELSE IF ~fetch.secret.v.valid
    THEN [err |-> "invalid credentials", data |-> <<>>]
    ELSE LET region == FindRegion(d.cluster.Shoot.Spec.Region, d.cloudProfileConfig)
         IN  IF region.isNil
             THEN [err |-> "region not found", data |-> <<>>]
             ELSE [err |-> NoErr,
                   data |-> (Host :> region.v.VsphereHost)
                            @@ (Username :> fetch.secret.v.Username)
                            @@ (Password :> fetch.secret.v.Password)
                            @@ (InsecureSSL :> FormatBool(region.v.VsphereInsecureSSL))]

RECURSIVE findMachineType(_, _, _)
\* the loop of extractMachineValues: the first machine type of that name
findMachineType(machineTypeName, machineTypes, i) ==
    IF i > Len(machineTypes) THEN NilPtr
    ELSE IF machineTypes[i].Name = machineTypeName THEN Ptr(machineTypes[i])
    ELSE findMachineType(machineTypeName, machineTypes, i + 1)

MachineValues(err, numCpus, memoryInMB, systemDiskSizeInGB) ==
    [err |-> err, numCpus |-> numCpus, memoryInMB |-> memoryInMB,
     systemDiskSizeInGB |-> systemDiskSizeInGB]

\* an extractMachineValues that accepts any storage size
extractMachineValuesAnyDisk(d, machineTypeName) ==
    LET machineType == findMachineType(machineTypeName,
                                       d.cluster.CloudProfile.Spec.MachineTypes, 1)
    IN  IF machineType.isNil
        THEN MachineValues("machine type not found in cloud profile spec", 0, 0, 0)
        ELSE
        LET cpu == AsInt64(machineType.v.CPU)
            numCpus == IF cpu.ok THEN IntOf(cpu.n) ELSE 0
        IN  IF numCpus <= 0
            THEN MachineValues("machine type has invalid CPU value", numCpus, 0, 0)
            ELSE
            LET mem == AsInt64(machineType.v.Memory)
                memoryInMB == IF mem.ok THEN DivMiB(mem.n) ELSE 0
            IN  IF memoryInMB <= 0
                THEN MachineValues("machine type has invalid Memory value", numCpus, memoryInMB, 0)
                ELSE IF machineType.v.Storage.isNil
                THEN MachineValues(NoErr, numCpus, memoryInMB, 20)
                ELSE
                LET sto == AsInt64(machineType.v.Storage.v.StorageSize)
                IN  IF ~sto.ok
                    THEN MachineValues("machine type has invalid storage size value",
                                       numCpus, memoryInMB, 20)
                    ELSE MachineValues(NoErr, numCpus, memoryInMB, DivGiB(sto.n))

extractMachineValues(d, machineTypeName) ==
    LET machineType == findMachineType(machineTypeName,
                                       d.cluster.CloudProfile.Spec.MachineTypes, 1)
    IN  IF machineType.isNil
        THEN MachineValues("machine type not found in cloud profile spec", 0, 0, 0)
        ELSE
        LET cpu == AsInt64(machineType.v.CPU)
            numCpus == IF cpu.ok THEN IntOf(cpu.n) ELSE 0
        IN  IF numCpus <= 0
            THEN MachineValues("machine type has invalid CPU value", numCpus, 0, 0)
            ELSE
            LET mem == AsInt64(machineType.v.Memory)
                memoryInMB == IF mem.ok THEN DivMiB(mem.n) ELSE 0
            IN  IF memoryInMB <= 0
                THEN MachineValues("machine type has invalid Memory value", numCpus, memoryInMB, 0)
                ELSE IF machineType.v.Storage.isNil
                THEN MachineValues(NoErr, numCpus, memoryInMB, 20)
                ELSE
                LET sto == AsInt64(machineType.v.Storage.v.StorageSize)
                    systemDiskSizeInGB == DivGiB(sto.n)
                IN  IF ~sto.ok
                    THEN MachineValues("machine type has invalid storage size value",
                                       numCpus, memoryInMB, 20)
                    ELSE IF systemDiskSizeInGB < 10
                    THEN MachineValues("machine type has invalid storage size value GB",
                                       numCpus, memoryInMB, systemDiskSizeInGB)
                    ELSE MachineValues(NoErr, numCpus, memoryInMB, systemDiskSizeInGB)

\* the map literal machineClassSpec of one zone; its secret map is the object
\* at address secretRef
machineClassSpec(d, infrastructureStatus, pool, zoneConfig, machineImagePath, mv, secretRef) ==
    [k \in {"region", "sshKeys", "datacenter", "network", "templateVM", "numCpus",
            "memory", "systemDisk", "tags", "secret"} |->
        CASE k = "region" -> infrastructureStatus.VsphereConfig.Region
          [] k = "sshKeys" -> <<d.worker.Spec.SSHPublicKey>>
          [] k = "datacenter" -> zoneConfig.Datacenter
          [] k = "network" -> infrastructureStatus.NSXTInfraState.v.SegmentName.v
          [] k = "templateVM" -> machineImagePath
          [] k = "numCpus" -> mv.numCpus
          [] k = "memory" -> mv.memoryInMB
          [] k = "systemDisk" -> [size |-> mv.systemDiskSizeInGB]
          [] k = "tags" -> [cluster |-> d.worker.Namespace, role |-> "node"]
          [] k = "secret" -> secretRef]

\* the secret map literal of one machine class
newSecretMap(pool) == ("cloudConfig" :> pool.UserData)

\* an addOptional that sets the key whatever the value
addOptionalAlways(spec, key, value) == MapSet(spec, key, value)

addOptional(spec, key, value) == IF value # "" THEN MapSet(spec, key, value) ELSE spec

\* the eight addOptional calls
addOptionals(spec, infrastructureStatus, machineImageGuestID, zoneConfig) ==
    LET s1 == addOptional(spec, "folder", infrastructureStatus.VsphereConfig.Folder)
        s2 == addOptional(s1, "guestId", machineImageGuestID)
        s3 == addOptional(s2, "hostSystem", zoneConfig.HostSystem)
        s4 == addOptional(s3, "resourcePool", zoneConfig.ResourcePool)
        s5 == addOptional(s4, "computeCluster", zoneConfig.ComputeCluster)
        s6 == addOptional(s5, "datastore", zoneConfig.Datastore)
        s7 == addOptional(s6, "datastoreCluster", zoneConfig.DatastoreCluster)
    IN  addOptional(s7, "switchUuid", zoneConfig.SwitchUUID)

\* a deployment name without the zone
deploymentNameOfPool(namespace, poolName, zoneIndex) == namespace \o <<"-">> \o poolName

\* fmt.Sprintf("%s-%s-z%d", namespace, pool.Name, zoneIndex+1)
deploymentName(namespace, poolName, zoneIndex) ==
    namespace \o <<"-">> \o poolName \o <<"-", "z">> \o Itoa(zoneIndex + 1)

\* fmt.Sprintf("%s-%s", deploymentName, workerPoolHash)
className(name, workerPoolHash) == name \o <<"-">> \o workerPoolHash

\* a deployment whose four bounds are all split like the pool's maximum
machineDeploymentOfMaximum(pool, zoneIdx, zoneLen, name, class) ==
    [Name |-> name,
     ClassName |-> class,
     SecretName |-> class,
     Minimum |-> DistributeOverZones(zoneIdx, pool.Maximum, zoneLen),
     Maximum |-> DistributeOverZones(zoneIdx, pool.Maximum, zoneLen),
     MaxSurge |-> DistributePositiveIntOrPercent(zoneIdx, pool.MaxSurge, zoneLen, pool.Maximum),
     MaxUnavailable |-> DistributePositiveIntOrPercent(zoneIdx, pool.MaxUnavailable, zoneLen, pool.Maximum),
     Labels |-> pool.Labels,
     Annotations |-> pool.Annotations,
     Taints |-> pool.Taints]

\* a deployment whose surge and unavailability have their bases exchanged
machineDeploymentBasesSwapped(pool, zoneIdx, zoneLen, name, class) ==
    [Name |-> name,
     ClassName |-> class,
     SecretName |-> class,
     Minimum |-> DistributeOverZones(zoneIdx, pool.Minimum, zoneLen),
     Maximum |-> DistributeOverZones(zoneIdx, pool.Maximum, zoneLen),
     MaxSurge |-> DistributePositiveIntOrPercent(zoneIdx, pool.MaxSurge, zoneLen, pool.Minimum),
     MaxUnavailable |-> DistributePositiveIntOrPercent(zoneIdx, pool.MaxUnavailable, zoneLen, pool.Maximum),
     Labels |-> pool.Labels,
     Annotations |-> pool.Annotations,
     Taints |-> pool.Taints]

\* the worker.MachineDeployment of one zone
machineDeployment(pool, zoneIdx, zoneLen, name, class) ==
    [Name |-> name,
     ClassName |-> class,
     SecretName |-> class,
     Minimum |-> DistributeOverZones(zoneIdx, pool.Minimum, zoneLen),
     Maximum |-> DistributeOverZones(zoneIdx, pool.Maximum, zoneLen),
     MaxSurge |-> DistributePositiveIntOrPercent(zoneIdx, pool.MaxSurge, zoneLen, pool.Maximum),
     MaxUnavailable |-> DistributePositiveIntOrPercent(zoneIdx, pool.MaxUnavailable, zoneLen, pool.Minimum),
     Labels |-> pool.Labels,
     Annotations |-> pool.Annotations,
     Taints |-> pool.Taints]

\* a merge that replaces the secret map by the credentials
mergeSecretDataReplacing(secretMap, data, keys) == data

RECURSIVE mergeSecretData(_, _, _)
\* for k, v := range machineClassSecretData { secretMap[k] = string(v) }
mergeSecretData(secretMap, data, keys) ==
    IF keys = {} THEN secretMap
    ELSE LET k == CHOOSE x \in keys : TRUE
         IN  mergeSecretData(MapSet(secretMap, k, data[k]), data, keys \ {k})

Step(name, poolIndex, zoneIndex) == <<name, poolIndex, zoneIndex>>

\* the locals of generateMachineConfig, the heap of the secret maps it has
\* allocated, and the steps it has run
Locals == [err |-> NoErr, machineDeployments |-> EmptySlice, machineClasses |-> NilSlice,
           machineImages |-> NilSlice, secretMaps |-> <<>>, steps |-> <<>>]

Ran(acc, step) == [acc EXCEPT !.steps = Append(@, step)]

Failed(acc, err) == [acc EXCEPT !.err = err]

\* the body of the zone loop once the zone's config is found
zoneBody(d, c, pool, poolIndex, zoneIndex, zoneConfig, acc) ==
    LET secretRef == Len(acc.secretMaps) + 1
        spec == addOptionals(
                    machineClassSpec(d, c.infrastructureStatus, pool, zoneConfig,
                                     c.machineImagePath, c.mv, secretRef),
                    c.infrastructureStatus, c.machineImageGuestID, zoneConfig)
        name == deploymentName(d.worker.Namespace, pool.Name, zoneIndex)
        class == className(name, c.workerPoolHash)
        secretMap == mergeSecretData(newSecretMap(pool), c.machineClassSecretData,
                                     DOMAIN c.machineClassSecretData)
    IN  [acc EXCEPT
            !.machineDeployments =
                append(@, machineDeployment(pool, zoneIndex, Len(pool.Zones), name, class)),
            !.machineClasses = append(@, MapSet(spec, "name", class)),
            !.secretMaps = Append(@, secretMap)]

RECURSIVE zoneLoopFromSecond(_, _, _, _, _, _)
\* a zone loop that leaves out the first zone of every pool
zoneLoopFromSecond(d, c, pool, poolIndex, zoneIndex, acc) ==
    IF zoneIndex = 0 /\ Len(pool.Zones) > 0
    THEN zoneLoopFromSecond(d, c, pool, poolIndex, 1, acc)
    ELSE IF zoneIndex >= Len(pool.Zones) THEN acc
    ELSE
    LET zone == pool.Zones[zoneIndex + 1]
        zoneConfigs == c.infrastructureStatus.VsphereConfig.ZoneConfigs
        looked == Ran(acc, Step("zoneConfig", poolIndex, zoneIndex))
    IN  IF zone \notin DOMAIN zoneConfigs
        THEN Failed(looked, "zoneConfig not found for zone")
        ELSE zoneLoopFromSecond(d, c, pool, poolIndex, zoneIndex + 1,
                      zoneBody(d, c, pool, poolIndex, zoneIndex, zoneConfigs[zone], looked))

RECURSIVE zoneLoop(_, _, _, _, _, _)
\* for zoneIndex, zone := range pool.Zones, from the zero-based zoneIndex on
zoneLoop(d, c, pool, poolIndex, zoneIndex, acc) ==
    IF zoneIndex >= Len(pool.Zones) THEN acc
    ELSE
    LET zone == pool.Zones[zoneIndex + 1]
        zoneConfigs == c.infrastructureStatus.VsphereConfig.ZoneConfigs
        looked == Ran(acc, Step("zoneConfig", poolIndex, zoneIndex))
    IN  IF zone \notin DOMAIN zoneConfigs
        THEN Failed(looked, "zoneConfig not found for zone")
        ELSE zoneLoop(d, c, pool, poolIndex, zoneIndex + 1,
                      zoneBody(d, c, pool, poolIndex, zoneIndex, zoneConfigs[zone], looked))

RECURSIVE poolLoop(_, _, _, _, _)
\* for _, pool := range w.worker.Spec.Pools, from the one-based poolIndex on
poolLoop(d, machineClassSecretData, infrastructureStatus, poolIndex, acc) ==
    IF poolIndex > Len(d.worker.Spec.Pools) THEN acc
    ELSE
    LET pool == d.worker.Spec.Pools[poolIndex]
        h == WorkerPoolHash(pool, d.cluster)
        a1 == Ran(acc, Step("workerPoolHash", poolIndex, 0))
    IN  IF h.err # NoErr THEN Failed(a1, h.err)
        ELSE
        LET image == findMachineImage(d, pool.MachineImage.Name, pool.MachineImage.Version)
            a2 == Ran(a1, Step("machineImage", poolIndex, 0))
        IN  IF image.err # NoErr THEN Failed(a2, image.err)
            ELSE
            LET a3 == [a2 EXCEPT !.machineImages =
                          appendMachineImage(@, [Name |-> pool.MachineImage.Name,
                                                 Version |-> pool.MachineImage.Version,
                                                 Path |-> image.path,
                                                 GuestID |-> image.guestID])]
                mv == extractMachineValues(d, pool.MachineType)
                a4 == Ran(a3, Step("machineType", poolIndex, 0))
            IN  IF mv.err # NoErr THEN Failed(a4, mv.err)
                ELSE
                LET c == [machineClassSecretData |-> machineClassSecretData,
                          infrastructureStatus |-> infrastructureStatus,
                          workerPoolHash |-> h.hash,
                          machineImagePath |-> image.path,
                          machineImageGuestID |-> image.guestID,
                          mv |-> mv]
                    a5 == zoneLoop(d, c, pool, poolIndex, 0, a4)
                IN  IF a5.err # NoErr THEN a5
                    ELSE poolLoop(d, machineClassSecretData, infrastructureStatus,
                                  poolIndex + 1, a5)

\* a generateMachineConfig that checks the SSH key before anything else
generateMachineConfigKeyFirst(d, fetch) ==
    IF Len(d.worker.Spec.SSHPublicKey) = 0
    THEN Failed(Ran(Locals, Step("sshPublicKey", 0, 0)), "missing sshPublicKey for infrastructure")
    ELSE
    LET sd == generateMachineClassSecretData(d, fetch)
        a1 == Ran(Ran(Locals, Step("sshPublicKey", 0, 0)), Step("secret", 0, 0))
    IN  IF sd.err # NoErr THEN Failed(a1, sd.err)
        ELSE
        LET st == GetInfrastructureStatus(d.worker.Namespace,
                                          d.worker.Spec.InfrastructureProviderStatus)
            a2 == Ran(a1, Step("infrastructureStatus", 0, 0))
        IN  IF st.err # NoErr THEN Failed(a2, st.err)
            ELSE IF st.status.NSXTInfraState.isNil
                    \/ st.status.NSXTInfraState.v.SegmentName.isNil
            THEN Failed(Ran(a2, Step("segmentName", 0, 0)), "SegmentName not set in nsxtInfraState")
            ELSE poolLoop(d, sd.data, st.status, 1, Ran(a2, Step("segmentName", 0, 0)))

\* generateMachineConfig up to its return: the error and the locals it holds
generateMachineConfigLocals(d, fetch) ==
    LET sd == generateMachineClassSecretData(d, fetch)
        a1 == Ran(Locals, Step("secret", 0, 0))
    IN  IF sd.err # NoErr THEN Failed(a1, sd.err)
        ELSE
        LET st == GetInfrastructureStatus(d.worker.Namespace,
                                          d.worker.Spec.InfrastructureProviderStatus)
            a2 == Ran(a1, Step("infrastructureStatus", 0, 0))
        IN  IF st.err # NoErr THEN Failed(a2, st.err)
            ELSE IF st.status.NSXTInfraState.isNil
                    \/ st.status.NSXTInfraState.v.SegmentName.isNil
            THEN Failed(Ran(a2, Step("segmentName", 0, 0)), "SegmentName not set in nsxtInfraState")
            ELSE IF Len(d.worker.Spec.SSHPublicKey) = 0
            THEN Failed(Ran(Ran(a2, Step("segmentName", 0, 0)), Step("sshPublicKey", 0, 0)),
                        "missing sshPublicKey for infrastructure")
            ELSE poolLoop(d, sd.data, st.status, 1,
                          Ran(Ran(a2, Step("segmentName", 0, 0)), Step("sshPublicKey", 0, 0)))

\* a generateMachineConfig that assigns the delegate's fields as it goes
publishPartial(d, r) ==
    [d EXCEPT !.machineDeployments = r.machineDeployments,
              !.machineClasses = r.machineClasses,
              !.machineImages = r.machineImages]

\* the three assignments that end generateMachineConfig: made on success only
publish(d, r) ==
    IF r.err # NoErr THEN d
    ELSE [d EXCEPT !.machineDeployments = r.machineDeployments,
                   !.machineClasses = r.machineClasses,
                   !.machineImages = r.machineImages]

\* the heap after generateMachineConfig: the maps of a published result are kept
publishSecretMaps(heap, r) == IF r.err # NoErr THEN heap ELSE r.secretMaps

\* ---------------------------------------------------------------- inputs

Namespace == <<"s", "h", "o", "o", "t">>

SSHKey == <<"s", "s", "h", "-", "r", "s", "a">>

ZoneNames == <<"z1", "z2", "z3", "z4">>

UnknownZone == "zx"

ZoneConfig(dc, hostSystem, resourcePool, computeCluster, datastore, datastoreCluster, switchUUID) ==
    [Datacenter |-> dc, HostSystem |-> hostSystem, ResourcePool |-> resourcePool,
     ComputeCluster |-> computeCluster, Datastore |-> datastore,
     DatastoreCluster |-> datastoreCluster, SwitchUUID |-> switchUUID]

\* every zone of ZoneNames has a record; UnknownZone has none
ZoneConfigs ==
    [z \in {ZoneNames[i] : i \in 1..Len(ZoneNames)} |->
        ZoneConfig(z, "", "pool-" \o z, "cluster-" \o z, "", "dsc-" \o z, "")]

InfraStatus(nsxt, folder, zoneConfigs) ==
    [NSXTInfraState |-> nsxt,
     VsphereConfig |-> [Region |-> "region-1", Folder |-> folder, ZoneConfigs |-> zoneConfigs]]

NSXT == Ptr([SegmentName |-> Ptr("segment-1")])

RawStatus(decodable, status) == [decodable |-> decodable, status |-> status]

GoodStatus == RawStatus(TRUE, InfraStatus(NSXT, "folder-1", ZoneConfigs))

Regions == <<[Name |-> "region-0", VsphereHost |-> "vc0.example", VsphereInsecureSSL |-> FALSE],
             [Name |-> "region-1", VsphereHost |-> "vc1.example", VsphereInsecureSSL |-> TRUE]>>

MachineType(name, cpu, memory, storage) ==
    [Name |-> name, CPU |-> cpu, Memory |-> memory, Storage |-> storage]

Storage(size) == Ptr([StorageSize |-> size])

\* std-02: 2 CPUs, 4Gi, no storage; std-04: 4 CPUs, 8Gi, 50Gi; std-08: no CPU
MachineTypes ==
    <<MachineType("std-02", Quantity(1, 0, 2), Quantity(1, 4, 0), NilPtr),
      MachineType("std-04", Quantity(1, 0, 4), Quantity(1, 8, 0), Storage(Quantity(1, 50, 0))),
      MachineType("std-08", Quantity(1, 0, 0), Quantity(1, 16, 0), NilPtr)>>

Images ==
    (<<"coreos", "2135.6.0">> :> [Path |-> "templates/coreos-2135.6.0", GuestID |-> "coreos64Guest"])
    @@ (<<"ubuntu", "18.4">> :> [Path |-> "templates/ubuntu-18.4", GuestID |-> ""])

Image(name, version) == [Name |-> name, Version |-> version]

Percent(digits) == FromString(digits \o <<"%">>)

Pool(name, machineType, image, zones, minimum, maximum, maxSurge, maxUnavailable, userData) ==
    [Name |-> name, MachineType |-> machineType, MachineImage |-> image, Zones |-> zones,
     Minimum |-> minimum, Maximum |-> maximum, MaxSurge |-> maxSurge,
     MaxUnavailable |-> maxUnavailable, UserData |-> userData,
     Labels |-> [pool |-> name], Annotations |-> <<>>, Taints |-> <<>>,
     Unhashable |-> FALSE]

\* a delegate as NewWorkerDelegate leaves it: nothing cached
Delegate(pools, sshPublicKey, rawStatus, region, machineTypes, images) ==
    [worker |-> [Namespace |-> Namespace,
                 Spec |-> [SSHPublicKey |-> sshPublicKey, Pools |-> pools,
                           InfrastructureProviderStatus |-> rawStatus]],
     cluster |-> [Shoot |-> [Spec |-> [Region |-> region]],
                  CloudProfile |-> [Spec |-> [MachineTypes |-> machineTypes]]],
     cloudProfileConfig |-> [Regions |-> Regions],
     images |-> images,
     machineDeployments |-> NilSlice,
     machineClasses |-> NilSlice,
     machineImages |-> NilSlice]

\* the outcomes of fetching the secret: absent, without valid credentials, valid
Fetches ==
    {[secret |-> NilPtr],
     [secret |-> Ptr([valid |-> FALSE, Username |-> "", Password |-> ""])],
     [secret |-> Ptr([valid |-> TRUE, Username |-> "admin", Password |-> "pw-1"])]}

\* no secret is fetched by a call that finds the result cached
NoFetch == [secret |-> NilPtr]

ApplyOutcomes == {NoErr, "apply failed"}

\* the first k zone names, the j-th replaced by the zone without a record (j = 0: none)
ZonesOf(k, j) == [i \in 1..k |-> IF i = j THEN UnknownZone ELSE ZoneNames[i]]

PoolName(i) == <<"p", Digit(i)>>

UserData(i) == <<"user-data-1", "user-data-2", "user-data-3", "user-data-4">>[i]

\* The i-th pool of a worker, with k zones and the defects named: "hash",
\* "image", "machineType", and the index of a zone without a record.
DefectPool(i, k, defects, badZone) ==
    [Pool(PoolName(i),
          IF "machineType" \in defects THEN "std-08"
          ELSE IF i % 2 = 1 THEN "std-02" ELSE "std-04",
          IF "image" \in defects THEN Image("coreos", "9.9.9")
          ELSE IF i = 3 THEN Image("ubuntu", "18.4") ELSE Image("coreos", "2135.6.0"),
          ZonesOf(k, badZone), i, i + 2, FromInt(1), Percent(<<"5", "0">>), UserData(i))
     EXCEPT !.Unhashable = "hash" \in defects]

DefectSets == {{"hash"}, {"image"}, {"machineType"}, {"hash", "image"},
               {"image", "machineType"}}

PoolVariants(i) ==
    {DefectPool(i, k, {}, 0) : k \in 0..MaxZones}
    \cup {DefectPool(i, 1, ds, 0) : ds \in DefectSets}
    \cup {DefectPool(i, MaxZones, {}, j) : j \in 1..MaxZones}
    \cup {DefectPool(i, 1, {"machineType"}, 1)}

RECURSIVE PoolListsTo(_, _)
\* the lists of the first i pools of a list of n: the last two pools of the
\* list are any of their variants, the pools before them are good, of one zone
PoolListsTo(i, n) ==
    IF i = 0 THEN {<<>>}
    ELSE {Append(ps, p) :
            ps \in PoolListsTo(i - 1, n),
            p \in IF i + 2 > n THEN PoolVariants(i) ELSE {DefectPool(i, 1, {}, 0)}}

PoolLists(n) == PoolListsTo(n, n)

BadStatuses ==
    {RawStatus(FALSE, InfraStatus(NSXT, "folder-1", ZoneConfigs)),
     RawStatus(TRUE, InfraStatus(NilPtr, "folder-1", ZoneConfigs)),
     RawStatus(TRUE, InfraStatus(Ptr([SegmentName |-> NilPtr]), "folder-1", ZoneConfigs))}

\* the delegates of Spec: any list of pools with every top-level input good,
\* and every combination of top-level defects with the lists of at most one pool
Delegates ==
    {Delegate(ps, SSHKey, GoodStatus, "region-1", MachineTypes, Images) :
        ps \in UNION {PoolLists(n) : n \in 0..MaxPools}}
    \cup {Delegate(ps, key, st, region, MachineTypes, Images) :
            ps \in PoolLists(0) \cup PoolLists(1),
            key \in {SSHKey, <<>>},
            st \in BadStatuses \cup {GoodStatus},
            region \in {"region-1", "region-9"}}


\* ---- the delegates of SpecNames: pools whose names may repeat or extend one
\* another, all with the same number of zones

PoolNames == {<<"a">>, <<"b">>, <<"a", "-", "z", "1">>}

NamedPools(k) ==
    {Pool(name, mt, Image("coreos", "2135.6.0"), ZonesOf(k, 0), 1, 2, FromInt(1), FromInt(0),
          "user-data-1") : name \in PoolNames, mt \in {"std-02", "std-04"}}

RECURSIVE NamedPoolLists(_, _)
NamedPoolLists(n, k) ==
    IF n = 0 THEN {<<>>}
    ELSE {Append(ps, p) : ps \in NamedPoolLists(n - 1, k), p \in NamedPools(k)}

NameDelegates ==
    {Delegate(ps, SSHKey, GoodStatus, "region-1", MachineTypes, Images) :
        ps \in UNION {NamedPoolLists(n, k) : n \in 0..MaxPools, k \in {1, MaxZones}}}

\* ---- the delegates of SpecBounds: one pool, its bounds and zones varied

Sizes == 0..MaxReplicas \cup {6}

IntOrPercents == {FromInt(0), FromInt(2), Percent(<<"5", "0">>), Percent(<<"3", "4">>)}

BoundsDelegates ==
    {Delegate(<<Pool(<<"p", "1">>, "std-02", Image("coreos", "2135.6.0"), ZonesOf(k, 0),
                     minimum, maximum, surge, unavailable, "user-data-1")>>,
              SSHKey, GoodStatus, "region-1", MachineTypes, Images) :
        k \in 0..(MaxZones + 1), minimum \in Sizes, maximum \in Sizes,
        surge \in IntOrPercents,
        unavailable \in {FromInt(1), Percent(<<"2", "5">>)}}

\* ---- the delegates of SpecMachineType: one pool of type std-02, the catalog varied

CPUs == {NoInt64, Quantity(1, 0, 0), Quantity(1, 0, 2), Quantity(-1, 0, 2)}

Memories == {NoInt64, Quantity(1, 0, MiB - 1), Quantity(1, 0, MiB), Quantity(1, 4, 0),
             Quantity(-1, 4, 0)}

Storages == {NilPtr, Storage(NoInt64), Storage(Quantity(1, 9, GiB - 1)),
             Storage(Quantity(1, 10, 0)), Storage(Quantity(1, 50, 1)),
             Storage(Quantity(-1, 50, 0))}

Catalogs ==
    {<<>>}
    \cup {<<MachineType(name, cpu, mem, sto)>> \o rest :
            name \in {"std-02", "std-04"}, cpu \in CPUs, mem \in Memories, sto \in Storages,
            rest \in {<<>>,
                      <<MachineType("std-02", Quantity(1, 0, 8), Quantity(1, 16, 0), NilPtr)>>,
                      <<MachineType("std-02", Quantity(1, 0, 0), Quantity(1, 16, 0), NilPtr)>>}}

MachineTypeDelegates ==
    {Delegate(<<Pool(<<"p", "1">>, "std-02", Image("coreos", "2135.6.0"), ZonesOf(1, 0),
                     1, 2, FromInt(1), FromInt(0), "user-data-1")>>,
              SSHKey, GoodStatus, "region-1", catalog, Images) : catalog \in Catalogs}

\* ---- the delegates of SpecOptional: one pool over z1 and z2, the optional
\* values of the folder, of the image and of z1 varied

Opt(v) == {"", v}

OptionalDelegates ==
    {Delegate(<<Pool(<<"p", "1">>, "std-02", image, ZonesOf(2, 0),
                     1, 2, FromInt(1), FromInt(0), "user-data-1")>>,
              SSHKey,
              RawStatus(TRUE, InfraStatus(NSXT, folder, ("z1" :> zc) @@ ZoneConfigs)),
              "region-1", MachineTypes, Images) :
        image \in {Image("coreos", "2135.6.0"), Image("ubuntu", "18.4")},
        folder \in Opt("folder-1"),
        zc \in {ZoneConfig("dc-1", hs, rp, cc, ds, dsc, sw) :
                    hs \in Opt("host-1"), rp \in Opt("rp-1"), cc \in Opt("cc-1"),
                    ds \in Opt("ds-1"), dsc \in Opt("dsc-1"), sw \in Opt("sw-1")}}

\* ---------------------------------------------------------------- the delegate

NoCall == [op |-> "none", ran |-> FALSE, fetch |-> NoFetch, genErr |-> NoErr,
           err |-> NoErr, deployments |-> NilSlice, steps |-> <<>>]

InitRest ==
    /\ secretMaps = <<>>
    /\ applied = [called |-> FALSE, machineClasses |-> NilSlice]
    /\ last = NoCall
    /\ stats = [calls |-> 0, runs |-> 0, secretFetches |-> 0, statusFetches |-> 0,
                succeeded |-> FALSE]

Init == w \in Delegates /\ InitRest

\* what a call that ran generateMachineConfig (or not) adds to the counts
Counted(run, r) ==
    [calls |-> stats.calls + 1,
     runs |-> stats.runs + (IF run THEN 1 ELSE 0),
     secretFetches |-> stats.secretFetches + (IF run THEN 1 ELSE 0),
     statusFetches |-> stats.statusFetches
        + (IF run /\ \E i \in 1..Len(r.steps) : r.steps[i][1] = "infrastructureStatus"
           THEN 1 ELSE 0),
     succeeded |-> stats.succeeded \/ (run /\ r.err = NoErr)]

DeployMachineClasses ==
    /\ stats.calls < MaxCalls
    /\ \E fetch \in (IF w.machineClasses.isNil THEN Fetches ELSE {NoFetch}),
          applyErr \in ApplyOutcomes :
        LET run == w.machineClasses.isNil
            r == generateMachineConfigLocals(w, fetch)
            genErr == IF run THEN r.err ELSE NoErr
            d == IF run THEN publish(w, r) ELSE w
        IN  /\ w' = d
            /\ secretMaps' = IF run THEN publishSecretMaps(secretMaps, r) ELSE secretMaps
            /\ applied' = IF genErr # NoErr THEN applied
                          ELSE [called |-> TRUE, machineClasses |-> d.machineClasses]
            /\ last' = [op |-> "DeployMachineClasses", ran |-> run, fetch |-> fetch,
                        genErr |-> genErr,
                        err |-> IF genErr # NoErr THEN genErr ELSE applyErr,
                        deployments |-> NilSlice,
                        steps |-> IF run THEN r.steps ELSE <<>>]
            /\ stats' = Counted(run, r)

GenerateMachineDeployments ==
    /\ stats.calls < MaxCalls
    /\ \E fetch \in (IF w.machineDeployments.isNil THEN Fetches ELSE {NoFetch}) :
        LET run == w.machineDeployments.isNil
            r == generateMachineConfigLocals(w, fetch)
            genErr == IF run THEN r.err ELSE NoErr
            d == IF run THEN publish(w, r) ELSE w
        IN  /\ w' = d
            /\ secretMaps' = IF run THEN publishSecretMaps(secretMaps, r) ELSE secretMaps
            /\ last' = [op |-> "GenerateMachineDeployments", ran |-> run, fetch |-> fetch,
                        genErr |-> genErr,
                        err |-> genErr,
                        deployments |-> IF genErr # NoErr THEN NilSlice
                                        ELSE d.machineDeployments,
                        steps |-> IF run THEN r.steps ELSE <<>>]
            /\ stats' = Counted(run, r)
            /\ UNCHANGED applied

Next == DeployMachineClasses \/ GenerateMachineDeployments

Spec == Init /\ [][Next]_vars

InitNames == w \in NameDelegates /\ InitRest

SpecNames == InitNames /\ [][Next]_vars

InitBounds == w \in BoundsDelegates /\ InitRest

SpecBounds == InitBounds /\ [][Next]_vars

InitMachineType == w \in MachineTypeDelegates /\ InitRest

SpecMachineType == InitMachineType /\ [][Next]_vars

InitOptional == w \in OptionalDelegates /\ InitRest

SpecOptional == InitOptional /\ [][Next]_vars

\* ---------------------------------------------------------------- properties

\* the (pool index, zero-based zone index) pairs in pool-then-zone order
RECURSIVE PairsFrom(_, _)
PairsFrom(pools, i) ==
    IF i > Len(pools) THEN <<>>
    ELSE [z \in 1..Len(pools[i].Zones) |-> <<i, z - 1>>] \o PairsFrom(pools, i + 1)

Pairs == PairsFrom(w.worker.Spec.Pools, 1)

RECURSIVE SumOfZones(_)
SumOfZones(pools) == IF pools = <<>> THEN 0 ELSE Len(Head(pools).Zones) + SumOfZones(Tail(pools))

Cache(d) == <<d.machineDeployments, d.machineClasses, d.machineImages>>

\* the last call ran generateMachineConfig and it succeeded
Generated == last.ran /\ last.genErr = NoErr

\* C1: a call whose generateMachineConfig returns an error leaves the three
\* cached fields (and the secret maps they point to) as they were, and
\* GenerateMachineDeployments then returns no deployments and that error.
C1_AllOrNothing ==
    [][(last'.ran /\ last'.genErr # NoErr)
        => /\ Cache(w') = Cache(w)
           /\ secretMaps' = secretMaps
           /\ last'.err = last'.genErr
           /\ last'.deployments = NilSlice]_vars

\* C1: generation failed at the second zone of the second pool, after the
\* first pool and the first zone were processed, and nothing is cached
C1_Witness ==
    /\ last.op = "GenerateMachineDeployments"
    /\ last.ran
    /\ last.genErr = "zoneConfig not found for zone"
    /\ last.steps[Len(last.steps)] = Step("zoneConfig", 2, 1)
    /\ Len(w.worker.Spec.Pools[1].Zones) > 0
    /\ w.machineDeployments.isNil /\ w.machineClasses.isNil /\ w.machineImages.isNil

\* C2 (as claimed): once a generation has succeeded on the instance, no later
\* call runs generateMachineConfig again, so nothing is fetched again.
C2_NoRunAfterSuccess ==
    [][stats.succeeded
        => /\ stats'.runs = stats.runs
           /\ stats'.secretFetches = stats.secretFetches
           /\ stats'.statusFetches = stats.statusFetches]_vars

\* C4: whenever a result is cached, it holds as many deployments and as many
\* classes as the pools have zones in all, the k-th of each being that of the
\* k-th (pool, zone) pair in pool-then-zone order.
C4_OnePerPoolZone ==
    ~w.machineDeployments.isNil =>
        LET pools == w.worker.Spec.Pools
            ds == w.machineDeployments.elems
            cs == w.machineClasses.elems
        IN  /\ Len(ds) = SumOfZones(pools)
            /\ Len(cs) = SumOfZones(pools)
            /\ Len(Pairs) = SumOfZones(pools)
            /\ \A k \in 1..Len(Pairs) :
                LET pool == pools[Pairs[k][1]]
                    zone == pool.Zones[Pairs[k][2] + 1]
                IN  /\ k <= Len(ds) /\ k <= Len(cs)
                    /\ ds[k].Labels = pool.Labels
                    /\ ds[k].ClassName = cs[k]["name"]
                    /\ cs[k]["datacenter"] = zone
                    /\ secretMaps[cs[k]["secret"]]["cloudConfig"] = pool.UserData

\* C4: two pools of two zones and one zone were expanded
C4_Witness ==
    /\ Generated
    /\ Len(w.worker.Spec.Pools) = 2
    /\ Len(w.worker.Spec.Pools[1].Zones) = 2
    /\ Len(w.worker.Spec.Pools[2].Zones) = 1
    /\ Len(w.machineClasses.elems) = 3

\* C9: right after a successful generation, the secret map of the k-th class
\* holds exactly cloudConfig, with the user data of its pool, and the four
\* credential keys, with the values fetched for that generation; no two
\* classes point to the same secret map.
C9_SecretMap ==
    Generated =>
        LET pools == w.worker.Spec.Pools
            cs == w.machineClasses.elems
            creds == last.fetch.secret.v
        IN  /\ Len(cs) = Len(Pairs)
            /\ \A k \in 1..Len(cs) :
                LET m == secretMaps[cs[k]["secret"]]
                IN  /\ DOMAIN m = {"cloudConfig", Host, Username, Password, InsecureSSL}
                    /\ m["cloudConfig"] = pools[Pairs[k][1]].UserData
                    /\ m[Username] = creds.Username
                    /\ m[Password] = creds.Password
                    /\ m[Host] = "vc1.example"
                    /\ m[InsecureSSL] = "true"
            /\ \A j, k \in 1..Len(cs) : j # k => cs[j]["secret"] # cs[k]["secret"]

\* C9: classes of two pools with different user data were generated
C9_Witness ==
    /\ Generated
    /\ Len(w.machineClasses.elems) >= 3
    /\ \E j, k \in 1..Len(w.machineClasses.elems) :
        secretMaps[w.machineClasses.elems[j]["secret"]]["cloudConfig"]
            # secretMaps[w.machineClasses.elems[k]["secret"]]["cloudConfig"]

\* ---- the order of the checks

Check(step, err) == [step |-> step, err |-> err]

SecretCheck(d, fetch) ==
    Check(Step("secret", 0, 0),
          IF fetch.secret.isNil THEN "secret not found"
          ELSE IF ~fetch.secret.v.valid THEN "invalid credentials"
          ELSE IF \A i \in 1..Len(d.cloudProfileConfig.Regions) :
                      d.cloudProfileConfig.Regions[i].Name # d.cluster.Shoot.Spec.Region
          THEN "region not found" ELSE NoErr)

TopChecks(d, fetch) ==
    LET raw == d.worker.Spec.InfrastructureProviderStatus
    IN  <<SecretCheck(d, fetch),
          Check(Step("infrastructureStatus", 0, 0),
                IF raw.decodable THEN NoErr ELSE "infrastructure status: decode failed"),
          Check(Step("segmentName", 0, 0),
                IF raw.status.NSXTInfraState.isNil THEN "SegmentName not set in nsxtInfraState"
                ELSE IF raw.status.NSXTInfraState.v.SegmentName.isNil
                THEN "SegmentName not set in nsxtInfraState" ELSE NoErr),
          Check(Step("sshPublicKey", 0, 0),
                IF d.worker.Spec.SSHPublicKey = <<>>
                THEN "missing sshPublicKey for infrastructure" ELSE NoErr)>>

HashCheck(d, i) ==
    Check(Step("workerPoolHash", i, 0),
          IF d.worker.Spec.Pools[i].Unhashable THEN "worker pool hash failed" ELSE NoErr)

ImageCheck(d, i) ==
    LET image == d.worker.Spec.Pools[i].MachineImage
    IN  Check(Step("machineImage", i, 0),
              IF <<image.Name, image.Version>> \in DOMAIN d.images
              THEN NoErr ELSE "machine image not found")

MachineTypeCheck(d, i) ==
    Check(Step("machineType", i, 0), extractMachineValues(d, d.worker.Spec.Pools[i].MachineType).err)

ZoneChecks(d, i) ==
    LET zones == d.worker.Spec.Pools[i].Zones
        known == DOMAIN d.worker.Spec.InfrastructureProviderStatus.status.VsphereConfig.ZoneConfigs
    IN  [z \in 1..Len(zones) |->
            Check(Step("zoneConfig", i, z - 1),
                  IF zones[z] \in known THEN NoErr ELSE "zoneConfig not found for zone")]

RECURSIVE PoolChecks(_, _, _)
\* the checks of the pools from the i-th on, with or without the hash of each
PoolChecks(d, i, withHash) ==
    IF i > Len(d.worker.Spec.Pools) THEN <<>>
    ELSE (IF withHash THEN <<HashCheck(d, i)>> ELSE <<>>)
         \o <<ImageCheck(d, i), MachineTypeCheck(d, i)>>
         \o ZoneChecks(d, i)
         \o PoolChecks(d, i + 1, withHash)

\* the index of the first failing check, 0 when there is none
FirstFailing(checks) ==
    IF \A i \in 1..Len(checks) : checks[i].err = NoErr THEN 0
    ELSE CHOOSE i \in 1..Len(checks) :
            /\ checks[i].err # NoErr
            /\ \A j \in 1..(i - 1) : checks[j].err = NoErr

\* the error of the first failing check, and the checks up to and with it
Outcome(checks) ==
    LET f == FirstFailing(checks)
    IN  [err |-> IF f = 0 THEN NoErr ELSE checks[f].err,
         steps |-> [i \in 1..(IF f = 0 THEN Len(checks) ELSE f) |-> checks[i].step]]

\* C10 (as claimed): the error generateMachineConfig returns is that of the
\* first failing step among: secret, infrastructure status and segment, SSH
\* key, and per pool the image, the machine type and the zones of the pool.
C10_ClaimedOrder ==
    last.ran => last.genErr = Outcome(TopChecks(w, last.fetch) \o PoolChecks(w, 1, FALSE)).err

\* C10 (amended): as claimed, with the pool's hash computed, and checked,
\* before the pool's image: the error is that of the first failing step, and
\* the steps run are exactly the steps up to and with that one.
C10_OrderWithHash ==
    last.ran =>
        LET o == Outcome(TopChecks(w, last.fetch) \o PoolChecks(w, 1, TRUE))
        IN  last.genErr = o.err /\ last.steps = o.steps

\* C10: the second pool has neither a known image nor a valid machine type,
\* and the generation stopped at its image
C10_Witness ==
    /\ last.ran
    /\ Len(w.worker.Spec.Pools) >= 2
    /\ ImageCheck(w, 2).err # NoErr
    /\ MachineTypeCheck(w, 2).err # NoErr
    /\ last.genErr = "machine image not found"
    /\ \E i \in 1..Len(last.steps) : last.steps[i] = Step("zoneConfig", 1, 0)

\* ---- names

ClassNamesDiffer ==
    LET cs == w.machineClasses.elems
    IN  \A j, k \in 1..Len(cs) : j # k => cs[j]["name"] # cs[k]["name"]

\* C3 (as claimed): in every cached result, no two machine classes have the
\* same name, whatever the pools.
C3_UniqueNames == ~w.machineClasses.isNil => ClassNamesDiffer

\* C3 (amended): in every cached result of a worker no two pools of which
\* have both the same name and the same pool hash, no two machine classes
\* have the same name.
C3_UniqueNamesOfDistinctPools ==
    LET pools == w.worker.Spec.Pools
    IN  (/\ ~w.machineClasses.isNil
         /\ \A i, j \in 1..Len(pools) :
                i # j => \/ pools[i].Name # pools[j].Name
                         \/ WorkerPoolHash(pools[i], w.cluster).hash
                                # WorkerPoolHash(pools[j], w.cluster).hash)
        => ClassNamesDiffer

\* C3: classes with different names were generated for a pool named a and a
\* pool named a-z1
C3_Witness ==
    LET pools == w.worker.Spec.Pools
    IN  /\ Generated
        /\ Len(w.machineClasses.elems) >= 4
        /\ \E i, j \in 1..Len(pools) :
            /\ pools[i].Name = <<"a">>
            /\ pools[j].Name = <<"a", "-", "z", "1">>
        /\ ClassNamesDiffer

\* ---- bounds

RECURSIVE SumOf(_)
SumOf(seq) == IF seq = <<>> THEN 0 ELSE Head(seq) + SumOf(Tail(seq))

\* the share of the zone of zero-based index z when total is split over n
\* zones: the quotient rounded up for the first (total mod n) zones, rounded
\* down for the others
ShareOf(z, total, n) ==
    IF z < total % n THEN (total + n - 1) \div n ELSE total \div n

\* the deployments of the i-th pool, in zone order
DeploymentsOf(i) ==
    LET ks == {k \in 1..Len(Pairs) : Pairs[k][1] = i}
        first == CHOOSE k \in ks : \A j \in ks : k <= j
    IN  [z \in 1..Cardinality(ks) |-> w.machineDeployments.elems[first + z - 1]]

\* C5: in every cached result, the deployments of a pool of Z >= 1 zones have
\* as Minimum the pool's Minimum divided by Z, rounded up for the first
\* (Minimum mod Z) zones and down for the others, which sum to the pool's
\* Minimum; and the same for Maximum.
C5_MinMaxShares ==
    ~w.machineDeployments.isNil =>
        \A i \in 1..Len(w.worker.Spec.Pools) :
            LET pool == w.worker.Spec.Pools[i]
                n == Len(pool.Zones)
            IN  n >= 1 =>
                LET ds == DeploymentsOf(i)
                IN  /\ Len(ds) = n
                    /\ \A z \in 1..n :
                        /\ ds[z].Minimum = ShareOf(z - 1, pool.Minimum, n)
                        /\ ds[z].Maximum = ShareOf(z - 1, pool.Maximum, n)
                    /\ SumOf([z \in 1..n |-> ds[z].Minimum]) = pool.Minimum
                    /\ SumOf([z \in 1..n |-> ds[z].Maximum]) = pool.Maximum

\* C5: a minimum of 3 and a maximum of 1 were split over two zones
C5_Witness ==
    /\ Generated
    /\ Len(w.machineDeployments.elems) = 2
    /\ w.worker.Spec.Pools[1].Minimum = 3
    /\ w.worker.Spec.Pools[1].Maximum = 1
    /\ w.machineDeployments.elems[1].Minimum = 2
    /\ w.machineDeployments.elems[2].Minimum = 1
    /\ w.machineDeployments.elems[1].Maximum = 1
    /\ w.machineDeployments.elems[2].Maximum = 0

\* the percentage a percent string stands for
PercentValue(v) ==
    CASE v.StrVal = <<"5", "0", "%">> -> 50
      [] v.StrVal = <<"3", "4", "%">> -> 34
      [] v.StrVal = <<"2", "5", "%">> -> 25

\* the integer a bound stands for against its base: a percentage of the base,
\* rounded up, or the integer itself
Resolved(v, base) ==
    IF v.Type = "String"
    THEN CHOOSE n \in 0..base :
            /\ 100 * n >= PercentValue(v) * base
            /\ 100 * (n - 1) < PercentValue(v) * base
    ELSE v.IntVal

\* C6: in every cached result, the MaxSurge of the deployments of a pool is
\* the share of the zone in the pool's MaxSurge resolved against the pool's
\* Maximum, and the MaxUnavailable the share in the pool's MaxUnavailable
\* resolved against the pool's Minimum; the shares of a pool sum to the
\* resolved integer.
C6_SurgeAndUnavailableShares ==
    ~w.machineDeployments.isNil =>
        \A i \in 1..Len(w.worker.Spec.Pools) :
            LET pool == w.worker.Spec.Pools[i]
                n == Len(pool.Zones)
                surge == Resolved(pool.MaxSurge, pool.Maximum)
                unavailable == Resolved(pool.MaxUnavailable, pool.Minimum)
            IN  n >= 1 =>
                LET ds == DeploymentsOf(i)
                IN  /\ \A z \in 1..n :
                        /\ ds[z].MaxSurge = FromInt(ShareOf(z - 1, surge, n))
                        /\ ds[z].MaxUnavailable = FromInt(ShareOf(z - 1, unavailable, n))
                    /\ SumOf([z \in 1..n |-> ds[z].MaxSurge.IntVal]) = surge
                    /\ SumOf([z \in 1..n |-> ds[z].MaxUnavailable.IntVal]) = unavailable

\* C6: a MaxSurge of 50% of a maximum of 6 was split over three zones, one
\* each, beside a MaxUnavailable of 25% of a minimum of 3
C6_Witness ==
    /\ Generated
    /\ Len(w.machineDeployments.elems) = 3
    /\ w.worker.Spec.Pools[1].Maximum = 6
    /\ w.worker.Spec.Pools[1].Minimum = 3
    /\ w.worker.Spec.Pools[1].MaxSurge = Percent(<<"5", "0">>)
    /\ w.worker.Spec.Pools[1].MaxUnavailable = Percent(<<"2", "5">>)
    /\ \A z \in 1..3 : w.machineDeployments.elems[z].MaxSurge = FromInt(1)
    /\ w.machineDeployments.elems[1].MaxUnavailable = FromInt(1)
    /\ w.machineDeployments.elems[2].MaxUnavailable = FromInt(0)

\* ---- machine types

TypeNames == {"std-02", "std-04", "std-16"}

Catalog == w.cluster.CloudProfile.Spec.MachineTypes

Listed(name) == \E i \in 1..Len(Catalog) : Catalog[i].Name = name

\* the first entry of the catalog with the name
Entry(name) ==
    Catalog[CHOOSE i \in 1..Len(Catalog) :
                /\ Catalog[i].Name = name
                /\ \A j \in 1..(i - 1) : Catalog[j].Name # name]

Positive(q) == q.int64 /\ q.sign = 1

\* the mebibytes in a positive quantity of bytes, rounded down: 1024 a 2^30
Mebibytes(q) == 1024 * q.hi + (CHOOSE m \in 0..1023 : m * MiB <= q.lo /\ q.lo - m * MiB < MiB)

Usable(name) ==
    /\ Listed(name)
    /\ Positive(Entry(name).CPU) /\ Entry(name).CPU.hi * GiB + Entry(name).CPU.lo > 0
    /\ Positive(Entry(name).Memory) /\ Mebibytes(Entry(name).Memory) > 0
    /\ \/ Entry(name).Storage.isNil
       \/ /\ Positive(Entry(name).Storage.v.StorageSize)
          /\ Entry(name).Storage.v.StorageSize.hi >= 10

Values(name) ==
    [numCpus |-> Entry(name).CPU.hi * GiB + Entry(name).CPU.lo,
     memoryInMB |-> Mebibytes(Entry(name).Memory),
     systemDiskSizeInGB |-> IF Entry(name).Storage.isNil THEN 20
                            ELSE Entry(name).Storage.v.StorageSize.hi]

\* C7: extractMachineValues succeeds for a name exactly when the first entry
\* of that name exists, has a CPU count > 0, a memory of more than 0 MB and
\* no storage or one of at least 10 GB, and then returns the CPU count, the
\* memory in MB and 20 or the storage in GB. A generation that reaches the
\* machine type of its pool succeeds exactly then, and its machine classes
\* carry these values, with numCpus > 0, memory > 0 and a disk >= 10.
C7_MachineValues ==
    /\ \A name \in TypeNames :
        LET r == extractMachineValues(w, name)
        IN  /\ (r.err = NoErr) <=> Usable(name)
            /\ r.err = NoErr =>
                /\ r.numCpus = Values(name).numCpus
                /\ r.memoryInMB = Values(name).memoryInMB
                /\ r.systemDiskSizeInGB = Values(name).systemDiskSizeInGB
    /\ (last.ran /\ \E i \in 1..Len(last.steps) : last.steps[i][1] = "machineType")
        => ((last.genErr = NoErr) <=> Usable(w.worker.Spec.Pools[1].MachineType))
    /\ \A k \in 1..Len(w.machineClasses.elems) :
        LET c == w.machineClasses.elems[k]
            v == Values(w.worker.Spec.Pools[Pairs[k][1]].MachineType)
        IN  /\ c["numCpus"] = v.numCpus /\ c["numCpus"] > 0
            /\ c["memory"] = v.memoryInMB /\ c["memory"] > 0
            /\ c["systemDisk"].size = v.systemDiskSizeInGB /\ c["systemDisk"].size >= 10

\* C7: of two entries named std-02 the first, of 2 CPUs, 4Gi and 50Gi and one
\* byte of storage, was used
C7_Witness ==
    /\ Generated
    /\ Len(Catalog) = 2
    /\ Catalog[1].Name = "std-02" /\ Catalog[2].Name = "std-02"
    /\ Len(w.machineClasses.elems) = 1
    /\ w.machineClasses.elems[1]["numCpus"] = 2
    /\ w.machineClasses.elems[1]["memory"] = 4096
    /\ w.machineClasses.elems[1]["systemDisk"].size = 50

\* ---- optional keys

OptionalKeys == {"folder", "guestId", "hostSystem", "resourcePool", "computeCluster",
                 "datastore", "datastoreCluster", "switchUuid"}

\* the value each optional key of the class of a pool and a zone comes from
Sources(pool, zone) ==
    LET status == w.worker.Spec.InfrastructureProviderStatus.status
        zc == status.VsphereConfig.ZoneConfigs[zone]
    IN  [k \in OptionalKeys |->
            CASE k = "folder" -> status.VsphereConfig.Folder
              [] k = "guestId" ->
                    w.images[<<pool.MachineImage.Name, pool.MachineImage.Version>>].GuestID
              [] k = "hostSystem" -> zc.HostSystem
              [] k = "resourcePool" -> zc.ResourcePool
              [] k = "computeCluster" -> zc.ComputeCluster
              [] k = "datastore" -> zc.Datastore
              [] k = "datastoreCluster" -> zc.DatastoreCluster
              [] k = "switchUuid" -> zc.SwitchUUID]

\* C8: in every cached machine class, an optional key is present exactly when
\* the value it comes from is not the empty string, and then holds that value.
C8_OptionalKeys ==
    \A n \in 1..Len(w.machineClasses.elems) :
        LET c == w.machineClasses.elems[n]
            pool == w.worker.Spec.Pools[Pairs[n][1]]
            src == Sources(pool, pool.Zones[Pairs[n][2] + 1])
        IN  \A k \in OptionalKeys :
                /\ (k \in DOMAIN c) <=> (src[k] # "")
                /\ (k \in DOMAIN c) => (c[k] = src[k] /\ c[k] # "")

\* C8: a class was generated with some optional keys and without others
C8_Witness ==
    /\ Generated
    /\ Len(w.machineClasses.elems) = 2
    /\ LET c == w.machineClasses.elems[1]
       IN  /\ "folder" \notin DOMAIN c
           /\ "guestId" \in DOMAIN c
           /\ "hostSystem" \in DOMAIN c
           /\ "datastore" \notin DOMAIN c
           /\ "switchUuid" \in DOMAIN c
    /\ "hostSystem" \notin DOMAIN w.machineClasses.elems[2]

====
